---- MODULE Spec2Model ----
(***************************************************************************)
(* A model of "Neon Network Breach" (src/game.py, src/main-pygbag.py): the *)
(* piece catalogue, the solution-path and board generators, the depth-     *)
(* first connectivity search, and the tick of the main loop with its hint  *)
(* mode.  Coordinates are <<x, y>>, 0-based, as in the source; a cell is   *)
(* a record [piece_type, orientation, target]; Python's None is None.      *)
(***************************************************************************)
EXTENDS Integers, Sequences, FiniteSets, TLC

VARIABLES
    pc,                 \* position of the modelled driver
    grid_size,          \* grid_size of the current board
    board,              \* [Cells(grid_size) -> Cell]
    solution_path,      \* sequence of <<x, y>>
    connection_path,    \* last result of find_connection_path, or None
    search,             \* visited/parent bookkeeping of that last search
    auto_solved,        \* outcome of random.random() < AUTO_SOLVED_CHANCE
    level, points, state,
    hint_mode, hint_start_time, hint_last_update, solution_reached_time,
    level_start_time, current_level_time, level_complete_start, timeout_start,
    current_time,       \* pygame.time.get_ticks() as read by the last tick
    last_tick,          \* what the last tick was given and did (observation only)
    hint_log,           \* what happened since the last hint trigger (observation only)
    cell,               \* a Cell object on its own, or None
    trail,              \* its orientation at construction and after each rotate()
    connections         \* the Cell get_connections() was last called on and its result

boardVars == <<grid_size, board, solution_path>>
gameVars == <<level, points, state, hint_mode, hint_start_time, hint_last_update,
              solution_reached_time, level_start_time, current_level_time,
              level_complete_start, timeout_start, current_time, last_tick,
              hint_log>>

cellVars == <<cell, trail, connections>>

vars == <<pc, boardVars, connection_path, search, auto_solved, gameVars, cellVars>>

(***************************************************************************)
(* Configuration constants                                                 *)
(***************************************************************************)
INITIAL_GRID_SIZE == 3
MAX_GRID_SIZE == 8
GRID_INCREASE_INTERVAL == 2
BASE_LEVEL_TIME == 60000
LEVEL_TIME_REDUCTION == 5000
MIN_LEVEL_TIME == 30000
LEVEL_COMPLETE_DELAY == 2000
HINT_MODE_MAX_DURATION == 6000
HINT_EXTENSION_DELAY == 1000

\* Directions: 0:Up, 1:Right, 2:Down, 3:Left.
DIRECTIONS == [d \in 0..3 |->
                 CASE d = 0 -> <<0, -1>>
                   [] d = 1 -> <<1, 0>>
                   [] d = 2 -> <<0, 1>>
                   [] d = 3 -> <<-1, 0>>]

REVERSE_DIR == [d \in 0..3 |-> CASE d = 0 -> 2 [] d = 1 -> 3 [] d = 2 -> 0 [] d = 3 -> 1]

None == <<>>

Orientations == {0, 90, 180, 270}
PieceTypes == {"line", "corner", "tshape", "plus"}

Range(s) == {s[i] : i \in 1..Len(s)}

Cells(n) == (0..(n - 1)) \X (0..(n - 1))

(***************************************************************************)
(* class Cell                                                              *)
(***************************************************************************)
\* Cell.__init__: target starts as the orientation given.
Cell(piece_type, orientation) ==
    [piece_type |-> piece_type, orientation |-> orientation, target |-> orientation]

\* A variant that turns a Plus like any other piece.
rotate_all(c) == [c EXCEPT !.orientation = (c.orientation + 90) % 360]

\* A variant that turns by a half turn.
rotate_half(c) ==
    IF c.piece_type = "plus"
    THEN c
    ELSE [c EXCEPT !.orientation = (c.orientation + 180) % 360]

\* A variant that turns the target along with the orientation.
rotate_retarget(c) ==
    IF c.piece_type # "plus"
    THEN [c EXCEPT !.orientation = (c.orientation + 90) % 360,
                   !.target = (c.target + 90) % 360]
    ELSE c

\* Cell.rotate
rotate(c) ==
    IF c.piece_type = "plus"
    THEN c
    ELSE [c EXCEPT !.orientation = (c.orientation + 90) % 360]

\* A variant whose Corner at 270 has the connectors of the Corner at 180.
get_connections_repeat(c) ==
    CASE c.piece_type = "line" ->
           IF c.orientation % 180 = 0 THEN <<0, 2>> ELSE <<1, 3>>
      [] c.piece_type = "corner" ->
           CASE c.orientation = 0 -> <<0, 1>>
             [] c.orientation = 90 -> <<1, 2>>
             [] c.orientation = 180 -> <<2, 3>>
             [] c.orientation = 270 -> <<2, 3>>
             [] OTHER -> <<>>
      [] c.piece_type = "tshape" ->
           CASE c.orientation = 0 -> <<0, 1, 3>>
             [] c.orientation = 90 -> <<0, 1, 2>>
             [] c.orientation = 180 -> <<1, 2, 3>>
             [] c.orientation = 270 -> <<0, 2, 3>>
             [] OTHER -> <<>>
      [] c.piece_type = "plus" -> <<0, 1, 2, 3>>
      [] OTHER -> <<>>

\* A variant whose Tshape at 270 lists its directions in descending order.
get_connections_descending(c) ==
    CASE c.piece_type = "line" ->
           IF c.orientation % 180 = 0 THEN <<0, 2>> ELSE <<1, 3>>
      [] c.piece_type = "corner" ->
           CASE c.orientation = 0 -> <<0, 1>>
             [] c.orientation = 90 -> <<1, 2>>
             [] c.orientation = 180 -> <<2, 3>>
             [] c.orientation = 270 -> <<3, 0>>
             [] OTHER -> <<>>
      [] c.piece_type = "tshape" ->
           CASE c.orientation = 0 -> <<0, 1, 3>>
             [] c.orientation = 90 -> <<0, 1, 2>>
             [] c.orientation = 180 -> <<1, 2, 3>>
             [] c.orientation = 270 -> <<3, 2, 0>>
             [] OTHER -> <<>>
      [] c.piece_type = "plus" -> <<0, 1, 2, 3>>
      [] OTHER -> <<>>

\* Cell.get_connections: the list of directions, in the order the code returns them.
get_connections(c) ==
    CASE c.piece_type = "line" ->
           IF c.orientation % 180 = 0 THEN <<0, 2>> ELSE <<1, 3>>
      [] c.piece_type = "corner" ->
           CASE c.orientation = 0 -> <<0, 1>>
             [] c.orientation = 90 -> <<1, 2>>
             [] c.orientation = 180 -> <<2, 3>>
             [] c.orientation = 270 -> <<3, 0>>
             [] OTHER -> <<>>
      [] c.piece_type = "tshape" ->
           CASE c.orientation = 0 -> <<0, 1, 3>>
             [] c.orientation = 90 -> <<0, 1, 2>>
             [] c.orientation = 180 -> <<1, 2, 3>>
             [] c.orientation = 270 -> <<0, 2, 3>>
             [] OTHER -> <<>>
      [] c.piece_type = "plus" -> <<0, 1, 2, 3>>
      [] OTHER -> <<>>

(***************************************************************************)
(* get_piece_for_connections.  coin is the outcome of                      *)
(* random.choice([True, False]) and pick the index drawn by the inner      *)
(* random.choice over the two T-shape orientations.                        *)
(***************************************************************************)
\* A variant whose corner table is one entry off for {Down, Left}.
get_piece_for_connections_shifted(incoming, outgoing, coin, pick) ==
    LET directions_set == {incoming, outgoing} IN
    IF directions_set = {0, 2}
    THEN IF coin THEN <<"line", 0>> ELSE <<"tshape", <<90, 270>>[pick]>>
    ELSE IF directions_set = {1, 3}
    THEN IF coin THEN <<"line", 90>> ELSE <<"tshape", <<0, 180>>[pick]>>
    ELSE IF incoming = outgoing
    THEN IF incoming \in {0, 2} THEN <<"line", 0>> ELSE <<"line", 90>>
    ELSE IF directions_set = {0, 1} THEN <<"corner", 0>>
    ELSE IF directions_set = {1, 2} THEN <<"corner", 90>>
    ELSE IF directions_set = {2, 3} THEN <<"corner", 90>>
    ELSE IF directions_set = {3, 0} THEN <<"corner", 270>>
    ELSE <<"line", 0>>

\* A variant that answers a repeated direction with the vertical Line always.
get_piece_for_connections_flat(incoming, outgoing, coin, pick) ==
    LET directions_set == {incoming, outgoing} IN
    IF directions_set = {0, 2}
    THEN IF coin THEN <<"line", 0>> ELSE <<"tshape", <<90, 270>>[pick]>>
    ELSE IF directions_set = {1, 3}
    THEN IF coin THEN <<"line", 90>> ELSE <<"tshape", <<0, 180>>[pick]>>
    ELSE IF incoming = outgoing
    THEN <<"line", 0>>
    ELSE IF directions_set = {0, 1} THEN <<"corner", 0>>
    ELSE IF directions_set = {1, 2} THEN <<"corner", 90>>
    ELSE IF directions_set = {2, 3} THEN <<"corner", 180>>
    ELSE IF directions_set = {3, 0} THEN <<"corner", 270>>
    ELSE <<"line", 0>>

get_piece_for_connections(incoming, outgoing, coin, pick) ==
    LET directions_set == {incoming, outgoing} IN
    IF directions_set = {0, 2}
    THEN IF coin THEN <<"line", 0>> ELSE <<"tshape", <<90, 270>>[pick]>>
    ELSE IF directions_set = {1, 3}
    THEN IF coin THEN <<"line", 90>> ELSE <<"tshape", <<0, 180>>[pick]>>
    ELSE IF incoming = outgoing
    THEN IF incoming \in {0, 2} THEN <<"line", 0>> ELSE <<"line", 90>>
    ELSE IF directions_set = {0, 1} THEN <<"corner", 0>>
    ELSE IF directions_set = {1, 2} THEN <<"corner", 90>>
    ELSE IF directions_set = {2, 3} THEN <<"corner", 180>>
    ELSE IF directions_set = {3, 0} THEN <<"corner", 270>>
    ELSE <<"line", 0>>

(***************************************************************************)
(* generate_solution_path.  moves is the list after random.shuffle.        *)
(***************************************************************************)
\* Every outcome of random.shuffle on ['R'] * (cols - 1) + ['D'] * (rows - 1).
Shuffles(cols, rows) ==
    {m \in [1..(cols + rows - 2) -> {"R", "D"}] :
        Cardinality({i \in 1..(cols + rows - 2) : m[i] = "R"}) = cols - 1}

RECURSIVE WalkMoves(_, _, _)
\* The loop "for move in moves": path so far, moves, index of the next move.
WalkMoves(path, moves, k) ==
    IF k > Len(moves)
    THEN path
    ELSE LET x == path[Len(path)][1]
             y == path[Len(path)][2]
             nx == IF moves[k] = "R" THEN x + 1 ELSE x
             ny == IF moves[k] = "D" THEN y + 1 ELSE y
         IN WalkMoves(Append(path, <<nx, ny>>), moves, k + 1)

\* A variant that starts the walk at the second move.
generate_solution_path_skip(moves) == WalkMoves(<< <<0, 0>> >>, moves, 2)

generate_solution_path(moves) == WalkMoves(<< <<0, 0>> >>, moves, 1)

(***************************************************************************)
(* create_board.  The random draws are arguments: moves is the shuffle,    *)
(* draws[i] holds what the code draws for path index i (1-based here):     *)
(* use_plus (random.random() < 0.1), coin and pick (consumed by            *)
(* get_piece_for_connections) and scramble (the index random.choice takes  *)
(* in possible_orientations); fill[c] is the (piece, orientation) drawn    *)
(* for the non-path cell c.                                                *)
(***************************************************************************)
\* The loop "for d, (ddx, ddy) in DIRECTIONS.items(): if ddx == dx and ddy == dy".
DirOf(dx, dy) == CHOOSE d \in 0..3 : DIRECTIONS[d] = <<dx, dy>>

\* A variant that lays the first node's Line across its outgoing direction.
SolvedPiece_crossed(path, i, draw) ==
    IF draw.use_plus
    THEN <<"plus", 0>>
    ELSE IF i = 1
    THEN LET out_dir == DirOf(path[i + 1][1] - path[i][1], path[i + 1][2] - path[i][2])
         IN <<"line", IF out_dir \in {0, 2} THEN 90 ELSE 0>>
    ELSE IF i = Len(path)
    THEN LET prev_move == DirOf(path[i][1] - path[i - 1][1], path[i][2] - path[i - 1][2])
             incoming == REVERSE_DIR[prev_move]
         IN <<"line", IF incoming \in {0, 2} THEN 0 ELSE 90>>
    ELSE LET incoming == REVERSE_DIR[DirOf(path[i][1] - path[i - 1][1],
                                           path[i][2] - path[i - 1][2])]
             out_dir == DirOf(path[i + 1][1] - path[i][1], path[i + 1][2] - path[i][2])
         IN get_piece_for_connections(incoming, out_dir, draw.coin, draw.pick)

\* (piece_type, solved_orientation) of path index i, as the first loop computes it.
SolvedPiece(path, i, draw) ==
    IF draw.use_plus
    THEN <<"plus", 0>>
    ELSE IF i = 1
    THEN LET out_dir == DirOf(path[i + 1][1] - path[i][1], path[i + 1][2] - path[i][2])
         IN <<"line", IF out_dir \in {0, 2} THEN 0 ELSE 90>>
    ELSE IF i = Len(path)
    THEN LET prev_move == DirOf(path[i][1] - path[i - 1][1], path[i][2] - path[i - 1][2])
             incoming == REVERSE_DIR[prev_move]
         IN <<"line", IF incoming \in {0, 2} THEN 0 ELSE 90>>
    ELSE LET incoming == REVERSE_DIR[DirOf(path[i][1] - path[i - 1][1],
                                           path[i][2] - path[i - 1][2])]
             out_dir == DirOf(path[i + 1][1] - path[i][1], path[i + 1][2] - path[i][2])
         IN get_piece_for_connections(incoming, out_dir, draw.coin, draw.pick)

\* A variant that forgets to remove the target.
PossibleOrientations_keep(target) == <<0, 90, 180, 270>>

\* possible_orientations after possible_orientations.remove(cell.target).
PossibleOrientations(target) ==
    SelectSeq(<<0, 90, 180, 270>>, LAMBDA o : o # target)

\* The scramble loop's effect on one solution-path cell.
Scramble(c, draw) ==
    IF c.piece_type = "plus"
    THEN c
    ELSE [c EXCEPT !.orientation = PossibleOrientations(c.target)[draw.scramble]]

PathIndex(path, c) == CHOOSE i \in 1..Len(path) : path[i] = c

\* The cell the three loops of create_board leave at c: built solved (path) or
\* drawn (fill), then scrambled if it is on the path.
BuiltCell(path, c, draws, fill) ==
    IF c \in Range(path)
    THEN LET i == PathIndex(path, c)
             p == SolvedPiece(path, i, draws[i])
         IN Scramble(Cell(p[1], p[2]), draws[i])
    ELSE Cell(fill[c][1], fill[c][2])

BoardOnPath(n, path, draws, fill) ==
    [board |-> [c \in Cells(n) |-> BuiltCell(path, c, draws, fill)],
     solution_path |-> path]

create_board(n, moves, draws, fill) ==
    BoardOnPath(n, generate_solution_path(moves), draws, fill)

\* main: "for (x, y) in solution_path: board[y][x].orientation = board[y][x].target"
AutoSolve(b, path) ==
    [c \in DOMAIN b |->
        IF c \in Range(path) THEN [b[c] EXCEPT !.orientation = b[c].target] ELSE b[c]]

(***************************************************************************)
(* find_connection_path.  The closure variables visited and parent are     *)
(* threaded through the recursion as the record st; st.expanded lists the  *)
(* cells in the order visited.add is called on them and st.assigned the    *)
(* cells in the order "parent[(nx, ny)] = (x, y)" is run for them.         *)
(***************************************************************************)
InBounds(n, c) == 0 <= c[1] /\ c[1] < n /\ 0 <= c[2] /\ c[2] < n

Step(c, d) == <<c[1] + DIRECTIONS[d][1], c[2] + DIRECTIONS[d][2]>>

RECURSIVE dfs(_, _, _, _), dfs_loop(_, _, _, _, _, _)
\* def dfs(x, y)
dfs(b, n, c, st) ==
    IF c = <<n - 1, n - 1>>
    THEN [st EXCEPT !.found = TRUE]
    ELSE dfs_loop(b, n, c, get_connections(b[c]), 1,
                  [st EXCEPT !.visited = @ \cup {c}, !.expanded = Append(@, c)])

\* A variant that returns the first recursive call's result instead of trying
\* the remaining directions.
dfs_loop_first(b, n, c, conns, k, st) ==
    IF k > Len(conns)
    THEN [st EXCEPT !.found = FALSE]
    ELSE LET d == conns[k]
             nc == Step(c, d)
         IN IF /\ InBounds(n, nc)
               /\ REVERSE_DIR[d] \in Range(get_connections(b[nc]))
               /\ nc \notin st.visited
            THEN dfs(b, n, nc, [st EXCEPT !.parent = (nc :> c) @@ @,
                                                   !.assigned = Append(@, nc)])
            ELSE dfs_loop(b, n, c, conns, k + 1, st)

\* A variant that does not ask the neighbour for the opposite connector.
dfs_loop_onesided(b, n, c, conns, k, st) ==
    IF k > Len(conns)
    THEN [st EXCEPT !.found = FALSE]
    ELSE LET d == conns[k]
             nc == Step(c, d)
         IN IF /\ InBounds(n, nc)
               /\ nc \notin st.visited
            THEN LET st1 == dfs(b, n, nc, [st EXCEPT !.parent = (nc :> c) @@ @,
                                                   !.assigned = Append(@, nc)])
                 IN IF st1.found THEN st1 ELSE dfs_loop(b, n, c, conns, k + 1, st1)
            ELSE dfs_loop(b, n, c, conns, k + 1, st)

\* A variant that runs the parent assignment for every linked neighbour,
\* visited or not (the map keeps the first parent).
dfs_loop_eager(b, n, c, conns, k, st) ==
    IF k > Len(conns)
    THEN [st EXCEPT !.found = FALSE]
    ELSE LET d == conns[k]
             nc == Step(c, d)
         IN IF /\ InBounds(n, nc)
               /\ REVERSE_DIR[d] \in Range(get_connections(b[nc]))
            THEN IF nc \notin st.visited
                 THEN LET st1 == dfs(b, n, nc, [st EXCEPT !.parent = @ @@ (nc :> c),
                                                         !.assigned = Append(@, nc)])
                      IN IF st1.found THEN st1 ELSE dfs_loop(b, n, c, conns, k + 1, st1)
                 ELSE dfs_loop(b, n, c, conns, k + 1,
                               [st EXCEPT !.parent = @ @@ (nc :> c),
                                          !.assigned = Append(@, nc)])
            ELSE dfs_loop(b, n, c, conns, k + 1, st)

\* "for d in board[y][x].get_connections()", from the k-th direction on.
dfs_loop(b, n, c, conns, k, st) ==
    IF k > Len(conns)
    THEN [st EXCEPT !.found = FALSE]
    ELSE LET d == conns[k]
             nc == Step(c, d)
         IN IF /\ InBounds(n, nc)
               /\ REVERSE_DIR[d] \in Range(get_connections(b[nc]))
               /\ nc \notin st.visited
            THEN LET st1 == dfs(b, n, nc, [st EXCEPT !.parent = (nc :> c) @@ @,
                                                   !.assigned = Append(@, nc)])
                 IN IF st1.found THEN st1 ELSE dfs_loop(b, n, c, conns, k + 1, st1)
            ELSE dfs_loop(b, n, c, conns, k + 1, st)

RECURSIVE BackTrack(_, _, _)
\* "while cur != (0, 0): path.append(cur); cur = parent[cur]", then append (0, 0).
BackTrack(parent, cur, path) ==
    IF cur = <<0, 0>>
    THEN Append(path, <<0, 0>>)
    ELSE BackTrack(parent, parent[cur], Append(path, cur))

\* path.reverse()
Reverse(s) == [i \in 1..Len(s) |-> s[Len(s) + 1 - i]]

EmptySearch ==
    [found |-> FALSE, visited |-> {}, parent |-> <<>>, expanded |-> <<>>,
     assigned |-> <<>>]

\* The search as run from dfs(0, 0): its final bookkeeping.
SearchFrom(b, n) == dfs(b, n, <<0, 0>>, EmptySearch)

\* "if dfs(0, 0): ... return path" / "return None", given the finished search.
PathOfSearch(st, n) ==
    IF st.found
    THEN Reverse(BackTrack(st.parent, <<n - 1, n - 1>>, <<>>))
    ELSE None

find_connection_path(b, n) == PathOfSearch(SearchFrom(b, n), n)

(***************************************************************************)
(* Level progression                                                       *)
(***************************************************************************)
Max(a, b) == IF a >= b THEN a ELSE b
Min(a, b) == IF a <= b THEN a ELSE b

\* A variant without the lower clamp.
get_level_time_unclamped(lvl) ==
    BASE_LEVEL_TIME - (lvl - 1) * LEVEL_TIME_REDUCTION

get_level_time(lvl) ==
    Max(BASE_LEVEL_TIME - (lvl - 1) * LEVEL_TIME_REDUCTION, MIN_LEVEL_TIME)

\* A variant that grows the grid one level early.
get_grid_size_for_level_early(lvl) ==
    Min(MAX_GRID_SIZE, INITIAL_GRID_SIZE + (lvl \div GRID_INCREASE_INTERVAL))

get_grid_size_for_level(lvl) ==
    Min(MAX_GRID_SIZE, INITIAL_GRID_SIZE + ((lvl - 1) \div GRID_INCREASE_INTERVAL))

(***************************************************************************)
(* The outcomes of the random source that the model enumerates.            *)
(***************************************************************************)
\* Number of distinct (piece, orientation) outcomes enumerated for a fill cell.
FillVariety == 2

\* The 16 outcomes of the fill draw, the enumerated ones first.
FillChoices ==
    << <<"plus", 0>>, <<"corner", 180>>, <<"tshape", 270>>, <<"line", 90>>,
       <<"line", 0>>, <<"corner", 0>>, <<"tshape", 90>>, <<"corner", 90>>,
       <<"tshape", 0>>, <<"corner", 270>>, <<"tshape", 180>>, <<"line", 180>>,
       <<"line", 270>>, <<"plus", 90>>, <<"plus", 180>>, <<"plus", 270>> >>

FillDraws == {FillChoices[k] : k \in 1..Min(FillVariety, Len(FillChoices))}

\* Whether the code reaches get_piece_for_connections' coin for path index i.
IsStraight(path, i) ==
    /\ 1 < i /\ i < Len(path)
    /\ \/ path[i + 1][1] - path[i - 1][1] = 2
       \/ path[i + 1][2] - path[i - 1][2] = 2

\* The outcomes of one path index's draws: the Plus override, or a coin, a
\* T-shape pick and a scramble index.
AllDraws ==
    {[use_plus |-> TRUE, coin |-> TRUE, pick |-> 1, scramble |-> 1]}
    \cup {[use_plus |-> FALSE, coin |-> TRUE, pick |-> 1, scramble |-> s] : s \in 1..3}
    \cup {[use_plus |-> FALSE, coin |-> FALSE, pick |-> k, scramble |-> s] :
            k \in 1..2, s \in 1..3}

\* The draws the code can make for path index i; the coin is consulted on a
\* straight interior cell only, and a draw that is not made has one fixed value.
PathDraws(path, i) == {d \in AllDraws : d.coin \/ IsStraight(path, i)}

RECURSIVE DrawSeqs(_, _)
\* All sequences of draws for the path indices 1..i.
DrawSeqs(path, i) ==
    IF i = 0
    THEN {<<>>}
    ELSE {Append(ds, d) : ds \in DrawSeqs(path, i - 1), d \in PathDraws(path, i)}

(***************************************************************************)
(* main's locals and the hint globals as they stand before the loop runs.  *)
(* level_complete_start is unbound in the source until the first           *)
(* completion and is never read before; it is 0 here.                      *)
(***************************************************************************)
\* No Cell object is held on its own.
CellIdle ==
    /\ cell = None
    /\ trail = <<>>
    /\ connections = None

NoEvents == <<>>

GameIdle ==
    /\ level = 1
    /\ points = 0
    /\ state = "playing"
    /\ hint_mode = FALSE
    /\ hint_start_time = 0
    /\ hint_last_update = 0
    /\ solution_reached_time = None
    /\ level_start_time = 0
    /\ current_level_time = get_level_time(1)
    /\ level_complete_start = 0
    /\ timeout_start = 0
    /\ current_time = 0
    /\ last_tick = [n |-> 0, events |-> NoEvents, active |-> FALSE, gap |-> 0,
                    cadence |-> FALSE, expired |-> FALSE, replaced |-> FALSE]
    /\ hint_log = [cadences |-> 0, rotated |-> FALSE, replaced |-> FALSE,
                   trigger_state |-> ""]

(***************************************************************************)
(* Path generation on its own: generate_solution_path(N, N) for every      *)
(* grid size the game uses and every shuffle.                              *)
(***************************************************************************)
PathInit ==
    /\ pc = "path_start"
    /\ grid_size = 0
    /\ board = <<>>
    /\ solution_path = <<>>
    /\ connection_path = None
    /\ search = EmptySearch
    /\ auto_solved = FALSE
    /\ GameIdle
    /\ CellIdle

GeneratePath ==
    /\ pc = "path_start"
    /\ \E n \in INITIAL_GRID_SIZE..MAX_GRID_SIZE :
         \E moves \in Shuffles(n, n) :
            /\ grid_size' = n
            /\ solution_path' = generate_solution_path(moves)
    /\ pc' = "path_done"
    /\ UNCHANGED <<board, connection_path, search, auto_solved, gameVars, cellVars>>

PathNext == GeneratePath

SpecPath == PathInit /\ [][PathNext]_vars

(***************************************************************************)
(* Start-up of main: level 1, create_board, the auto-solved override when  *)
(* its draw succeeds, and the first connectivity check.                    *)
(***************************************************************************)
BoardInit ==
    /\ pc = "boot"
    /\ grid_size = get_grid_size_for_level(1)
    /\ board = <<>>
    /\ solution_path = <<>>
    /\ connection_path = None
    /\ search = EmptySearch
    /\ auto_solved = FALSE
    /\ GameIdle
    /\ CellIdle

\* board, solution_path = create_board(grid_size)
CreateBoard ==
    /\ pc = "boot"
    /\ \E moves \in Shuffles(grid_size, grid_size) :
         LET path == generate_solution_path(moves) IN
         \E draws \in DrawSeqs(path, Len(path)) :
         \E fill \in [Cells(grid_size) \ Range(path) -> FillDraws] :
            LET r == create_board(grid_size, moves, draws, fill)
            IN /\ board' = r.board
               /\ solution_path' = r.solution_path
    /\ pc' = "created"
    /\ UNCHANGED <<grid_size, connection_path, search, auto_solved, gameVars, cellVars>>

\* if random.random() < AUTO_SOLVED_CHANCE: every path cell is set to its target
AutoSolved ==
    /\ pc = "created"
    /\ board' = AutoSolve(board, solution_path)
    /\ auto_solved' = TRUE
    /\ pc' = "ready"
    /\ UNCHANGED <<grid_size, solution_path, connection_path, search, gameVars, cellVars>>

\* connection_path = find_connection_path(board), hint mode being off
CheckConnection ==
    /\ pc \in {"created", "ready"}
    /\ \E st \in {SearchFrom(board, grid_size)} :
          /\ search' = st
          /\ connection_path' = PathOfSearch(st, grid_size)
    /\ pc' = "checked"
    /\ UNCHANGED <<boardVars, auto_solved, gameVars, cellVars>>

BoardNext == CreateBoard \/ AutoSolved \/ CheckConnection

SpecBoard == BoardInit /\ [][BoardNext]_vars

(***************************************************************************)
(* find_connection_path on its own, on boards of arbitrary pieces.         *)
(***************************************************************************)
\* Number of distinct (piece, orientation) values enumerated for each cell.
AnyVariety == 3

AnyPieces == {FillChoices[k] : k \in 1..Min(AnyVariety, Len(FillChoices))}

\* Pieces for boards on which the search walks through Corners at 270, the
\* one piece whose connection list is not in ascending order.
TurnPieces == {<<"corner", 270>>, <<"plus", 0>>, <<"line", 90>>}

\* The boards the search is run on: every 3x3 board over AnyPieces and over
\* TurnPieces, and for the larger sizes every board that has one piece on all
\* cells but the exit and any piece on the exit.
AnyBoards(n) ==
    IF n = INITIAL_GRID_SIZE
    THEN [Cells(n) -> {Cell(p[1], p[2]) : p \in AnyPieces}]
         \cup [Cells(n) -> {Cell(p[1], p[2]) : p \in TurnPieces}]
    ELSE {[c \in Cells(n) |-> IF c = <<n - 1, n - 1>>
                              THEN Cell(q[1], q[2])
                              ELSE Cell(p[1], p[2])] :
            p \in Range(FillChoices), q \in Range(FillChoices)}

\* Largest board the search is run on.
MaxDfsSize == 4

DfsInit ==
    /\ pc = "any_board"
    /\ grid_size \in INITIAL_GRID_SIZE..MaxDfsSize
    /\ board = <<>>
    /\ solution_path = <<>>
    /\ connection_path = None
    /\ search = EmptySearch
    /\ auto_solved = FALSE
    /\ GameIdle
    /\ CellIdle

AnyBoard ==
    /\ pc = "any_board"
    /\ board' \in AnyBoards(grid_size)
    /\ pc' = "ready"
    /\ UNCHANGED <<grid_size, solution_path, connection_path, search, auto_solved, gameVars, cellVars>>

DfsNext == AnyBoard \/ CheckConnection

SpecDfs == DfsInit /\ [][DfsNext]_vars

(***************************************************************************)
(* A Cell object on its own: constructed, then rotate() and                *)
(* get_connections() called on it in any order.                            *)
(***************************************************************************)
\* Most rotate() calls made on the one Cell.
MaxCalls == 8

\* Cell(piece_type, target), standing at any of the four orientations.
CellInputs ==
    {[Cell(p, tg) EXCEPT !.orientation = o] :
        p \in PieceTypes, tg \in Orientations, o \in Orientations}

CellInit ==
    /\ pc = "cell"
    /\ cell \in CellInputs
    /\ trail = <<cell.orientation>>
    /\ connections = None
    /\ grid_size = INITIAL_GRID_SIZE
    /\ board = <<>>
    /\ solution_path = <<>>
    /\ connection_path = None
    /\ search = EmptySearch
    /\ auto_solved = FALSE
    /\ GameIdle

\* cell.rotate()
Rotate ==
    /\ pc = "cell"
    /\ Len(trail) <= MaxCalls
    /\ cell' = rotate(cell)
    /\ trail' = Append(trail, cell'.orientation)
    /\ UNCHANGED <<pc, boardVars, connection_path, search, auto_solved, gameVars,
                   connections>>

\* cell.get_connections()
GetConnections ==
    /\ pc = "cell"
    /\ connections' = [of |-> cell, result |-> get_connections(cell)]
    /\ UNCHANGED <<pc, boardVars, connection_path, search, auto_solved, gameVars,
                   cell, trail>>

CellNext == Rotate \/ GetConnections

SpecCell == CellInit /\ [][CellNext]_vars

(***************************************************************************)
(* get_piece_for_connections on its own, called with any two directions    *)
(* and any outcome of its random choices; the piece returned is built into *)
(* a Cell at its solved orientation, as create_board does, and asked for   *)
(* its connections.  trail keeps the pairs requested so far.               *)
(***************************************************************************)
\* Most calls of get_piece_for_connections in a row.
MaxRequests == 2

PieceInit ==
    /\ pc = "piece"
    /\ cell = None
    /\ trail = <<>>
    /\ connections = None
    /\ grid_size = INITIAL_GRID_SIZE
    /\ board = <<>>
    /\ solution_path = <<>>
    /\ connection_path = None
    /\ search = EmptySearch
    /\ auto_solved = FALSE
    /\ GameIdle

\* "piece_type, solved_orientation = get_piece_for_connections(incoming, out_dir)",
\* "cell = Cell(piece_type, solved_orientation)", "cell.get_connections()"
GetPieceForConnections ==
    /\ pc = "piece"
    /\ Len(trail) < MaxRequests
    /\ \E incoming \in 0..3, outgoing \in 0..3, coin \in BOOLEAN, pick \in 1..2 :
          \E r \in {get_piece_for_connections(incoming, outgoing, coin, pick)} :
             /\ cell' = Cell(r[1], r[2])
             /\ connections' = [of |-> cell', result |-> get_connections(cell')]
             /\ trail' = Append(trail, <<incoming, outgoing>>)
    /\ UNCHANGED <<pc, boardVars, connection_path, search, auto_solved, gameVars>>

PieceNext == GetPieceForConnections

SpecPiece == PieceInit /\ [][PieceNext]_vars

(***************************************************************************)
(* The level functions on their own, called with any phase number, and     *)
(* create_board called with the size returned.  Neither function checks    *)
(* its argument.  create_board is followed for the size 2 only: it builds  *)
(* a 2x2 board as it builds any other; for sizes below 2 the source runs   *)
(* into an IndexError on solution_path[1] or board[0], and the sizes from  *)
(* INITIAL_GRID_SIZE on are those of the board generator above.            *)
(***************************************************************************)
\* Largest phase number the functions are called with.
MaxPhase == 120
\* How many phase numbers below 1 they are called with.
LowPhases == 4

Phases == (1 - LowPhases)..MaxPhase

LevelsInit ==
    /\ pc = "levels"
    /\ grid_size = get_grid_size_for_level(1)
    /\ board = <<>>
    /\ solution_path = <<>>
    /\ connection_path = None
    /\ search = EmptySearch
    /\ auto_solved = FALSE
    /\ GameIdle
    /\ CellIdle

\* "grid_size = get_grid_size_for_level(level)" and
\* "current_level_time = get_level_time(level)" for any level
SetLevel ==
    /\ pc = "levels"
    /\ \E l \in Phases :
          /\ level' = l
          /\ grid_size' = get_grid_size_for_level(l)
          /\ current_level_time' = get_level_time(l)
    /\ UNCHANGED <<pc, board, solution_path, connection_path, search, auto_solved,
                   points, state, hint_mode, hint_start_time, hint_last_update,
                   solution_reached_time, level_start_time, level_complete_start,
                   timeout_start, current_time, last_tick, hint_log, cellVars>>

\* "board, solution_path = create_board(grid_size)" with grid_size = 2
CreateSmallBoard ==
    /\ pc = "levels"
    /\ grid_size = 2
    /\ \E moves \in Shuffles(grid_size, grid_size) :
          \E draws \in DrawSeqs(generate_solution_path(moves), 2 * grid_size - 1) :
             \E fill \in [Cells(grid_size) -> FillDraws] :
                \E r \in {create_board(grid_size, moves, draws, fill)} :
                   /\ board' = r.board
                   /\ solution_path' = r.solution_path
    /\ pc' = "created"
    /\ UNCHANGED <<grid_size, connection_path, search, auto_solved, gameVars, cellVars>>

LevelsNext == SetLevel \/ CreateSmallBoard

SpecLevels == LevelsInit /\ [][LevelsNext]_vars

(***************************************************************************)
(* The main loop.  One Tick* action is one pass of "while True": the clock *)
(* reading, the event batch, the hint animation, the connectivity check    *)
(* and the playing/hacked/timeout state machine.  The actions differ by    *)
(* the branch the state machine takes.  Events are <<"h">> (KEYDOWN K_h)   *)
(* and <<"click", grid_x, grid_y>> (MOUSEBUTTONDOWN, already divided by    *)
(* CELL_SIZE; a click outside the grid has a coordinate outside 0..N-1).   *)
(***************************************************************************)
\* Number of passes of the loop the model follows.
MaxTicks == 4
\* Last level the model lets the game advance to.
MaxLevel == 3

rotation_interval == 1000

\* Milliseconds between two passes of the loop.
TickDts == {1000, 3000, 60000}

ClickTargets(n) == {<<0, 0>>}

Events(n) == {<<"h">>} \cup {<<"click", c[1], c[2]>> : c \in ClickTargets(n)}

\* The batches "pygame.event.get()" returns: no event or one.
EventBatches(n) == {<<>>} \cup {<<e>> : e \in Events(n)}

\* The part of the program state the event loop and the hint animation write,
\* with what they did: active (the "if hint_mode:" block ran), gap (the time
\* since hint_last_update it read), cadence (the cadence step ran), expired
\* (the block switched hint mode off) and the log since the last trigger.
Mutable ==
    [board |-> board, hint_mode |-> hint_mode, hint_start_time |-> hint_start_time,
     hint_last_update |-> hint_last_update,
     solution_reached_time |-> solution_reached_time,
     active |-> FALSE, gap |-> 0, cadence |-> FALSE, expired |-> FALSE,
     log |-> hint_log]

\* A variant that starts the path cells a quarter turn past their target.
HintOffset_ahead(b, path) ==
    [c \in DOMAIN b |->
        IF c \in Range(path)
        THEN [b[c] EXCEPT !.orientation = (b[c].target + 90) % 360]
        ELSE b[c]]

\* "board[y][x].orientation = (board[y][x].target - 90) % 360" over solution_path
HintOffset(b, path) ==
    [c \in DOMAIN b |->
        IF c \in Range(path)
        THEN [b[c] EXCEPT !.orientation = (b[c].target - 90) % 360]
        ELSE b[c]]

\* A variant that lets K_h trigger the hint while hint mode is on, too.
HandleEvent_retrigger(g, ev, t) ==
    IF ev[1] = "h"
    THEN [g EXCEPT !.hint_mode = TRUE,
                   !.hint_start_time = t,
                   !.hint_last_update = t,
                   !.solution_reached_time = None,
                   !.board = HintOffset(g.board, solution_path),
                   !.log = [cadences |-> 0, rotated |-> FALSE,
                            replaced |-> FALSE, trigger_state |-> state]]
    ELSE IF state = "playing" /\ InBounds(grid_size, <<ev[2], ev[3]>>)
         THEN [g EXCEPT !.board[<<ev[2], ev[3]>>] = rotate(@),
                        !.log.rotated = TRUE]
         ELSE g

\* A variant that rotates the clicked cell in every game state.
HandleEvent_anystate(g, ev, t) ==
    IF ev[1] = "h"
    THEN IF ~g.hint_mode
         THEN [g EXCEPT !.hint_mode = TRUE,
                        !.hint_start_time = t,
                        !.hint_last_update = t,
                        !.solution_reached_time = None,
                        !.board = HintOffset(g.board, solution_path),
                        !.log = [cadences |-> 0, rotated |-> FALSE,
                                 replaced |-> FALSE, trigger_state |-> state]]
         ELSE g
    ELSE IF InBounds(grid_size, <<ev[2], ev[3]>>)
         THEN [g EXCEPT !.board[<<ev[2], ev[3]>>] = rotate(@),
                        !.log.rotated = TRUE]
         ELSE g

\* One event of "for event in pygame.event.get()".
HandleEvent(g, ev, t) ==
    IF ev[1] = "h"
    THEN IF ~g.hint_mode
         THEN [g EXCEPT !.hint_mode = TRUE,
                        !.hint_start_time = t,
                        !.hint_last_update = t,
                        !.solution_reached_time = None,
                        !.board = HintOffset(g.board, solution_path),
                        !.log = [cadences |-> 0, rotated |-> FALSE,
                                 replaced |-> FALSE, trigger_state |-> state]]
         ELSE g
    ELSE IF state = "playing" /\ InBounds(grid_size, <<ev[2], ev[3]>>)
         THEN [g EXCEPT !.board[<<ev[2], ev[3]>>] = rotate(@),
                        !.log.rotated = TRUE]
         ELSE g

RECURSIVE HandleEvents(_, _, _, _)
HandleEvents(g, evs, k, t) ==
    IF k > Len(evs) THEN g ELSE HandleEvents(HandleEvent(g, evs[k], t), evs, k + 1, t)

\* A variant of the cadence step that always turns the cell counter-clockwise.
HintRotate_ccw(c) ==
    IF c.orientation # c.target
    THEN [c EXCEPT !.orientation = (c.orientation - 90) % 360]
    ELSE c

\* A variant of the cadence step that sets the cell to its target at once.
HintRotate_snap(c) == [c EXCEPT !.orientation = c.target]

\* A variant of the cadence step that always turns the cell clockwise.
HintRotate_cw(c) ==
    IF c.orientation # c.target
    THEN [c EXCEPT !.orientation = (c.orientation + 90) % 360]
    ELSE c

\* A variant of the cadence step that turns a cell only when a quarter turn
\* brings it to its target.
HintRotate_quarter(c) ==
    IF c.orientation # c.target
    THEN IF (c.target - c.orientation) % 360 = 270
         THEN [c EXCEPT !.orientation = (c.orientation - 90) % 360]
         ELSE IF (c.target - c.orientation) % 360 = 90
         THEN [c EXCEPT !.orientation = (c.orientation + 90) % 360]
         ELSE c
    ELSE c

\* The cadence step on one solution-path cell.
HintRotate(c) ==
    IF c.orientation # c.target
    THEN IF (c.target - c.orientation) % 360 = 270
         THEN [c EXCEPT !.orientation = (c.orientation - 90) % 360]
         ELSE [c EXCEPT !.orientation = (c.orientation + 90) % 360]
    ELSE c

\* A variant that runs the cadence step at exactly rotation_interval too.
CadenceDue_at(last_update, t) == t - last_update >= rotation_interval

\* "if current_time - hint_last_update > rotation_interval:"
CadenceDue(last_update, t) == t - last_update > rotation_interval

\* A variant that ends hint mode as soon as the convergence stamp exists.
HintExpired_nodelay(start, reached, t) ==
    \/ t - start > HINT_MODE_MAX_DURATION
    \/ reached # None

\* The condition of the "hint_mode = False" statement.
HintExpired(start, reached, t) ==
    \/ t - start > HINT_MODE_MAX_DURATION
    \/ /\ reached # None
       /\ t - reached[1] > HINT_EXTENSION_DELAY

\* The cadence step over the whole solution path.
HintStep(b, path) ==
    [c \in DOMAIN b |-> IF c \in Range(path) THEN HintRotate(b[c]) ELSE b[c]]

\* "if hint_mode:" -- the cadence step, the convergence stamp and the expiry.
AnimateHint(g, t) ==
    IF ~g.hint_mode
    THEN g
    ELSE LET due == CadenceDue(g.hint_last_update, t)
             b1 == IF due THEN HintStep(g.board, solution_path) ELSE g.board
             all_correct == \A c \in Range(solution_path) :
                               b1[c].orientation = b1[c].target
             reached == IF all_correct /\ g.solution_reached_time = None
                        THEN <<t>>
                        ELSE g.solution_reached_time
             expired == HintExpired(g.hint_start_time, reached, t)
         IN [g EXCEPT !.board = b1,
                      !.hint_last_update = IF due THEN t ELSE @,
                      !.solution_reached_time = reached,
                      !.hint_mode = ~expired,
                      !.active = TRUE,
                      !.gap = t - g.hint_last_update,
                      !.cadence = due,
                      !.expired = expired,
                      !.log.cadences = IF due THEN @ + 1 ELSE @]

\* A variant that runs the connectivity check in hint mode too.
TickResult_unsuspended(dt, evs) ==
    LET t == current_time + dt
        g == AnimateHint(HandleEvents(Mutable, evs, 1, t), t)
    IN [t |-> t,
        time_left |-> Max(0, current_level_time - (t - level_start_time)),
        g |-> g,
        connection_path |-> find_connection_path(g.board, grid_size)]

\* The tick up to and including the connectivity check.
TickResult(dt, evs) ==
    LET t == current_time + dt
        g == AnimateHint(HandleEvents(Mutable, evs, 1, t), t)
    IN [t |-> t,
        time_left |-> Max(0, current_level_time - (t - level_start_time)),
        g |-> g,
        connection_path |-> IF ~g.hint_mode
                            THEN find_connection_path(g.board, grid_size)
                            ELSE None]

\* The outcomes of "board, solution_path = create_board(grid_size)" and of the
\* auto-solved draw that the loop is given.  The shuffle leaves the moves in
\* order (all R, then all D); the second path index draws the Plus override
\* and every other one draws d; every fill cell draws f, one of the first two
\* fill outcomes.
GameShuffles(n) == {m \in Shuffles(n, n) : \A i \in 1..(n - 1) : m[i] = "R"}

GameDraws ==
    {[use_plus |-> FALSE, coin |-> TRUE, pick |-> 1, scramble |-> 2],
     [use_plus |-> FALSE, coin |-> FALSE, pick |-> 2, scramble |-> 1]}

PlusDraw == [use_plus |-> TRUE, coin |-> TRUE, pick |-> 1, scramble |-> 1]

NewBoardsFor(n) ==
    {[board |-> IF auto THEN AutoSolve(r.board, r.solution_path) ELSE r.board,
      solution_path |-> r.solution_path,
      auto_solved |-> auto] :
        r \in {create_board(n, m,
                            [i \in 1..(2 * n - 1) |-> IF i = 2 THEN PlusDraw ELSE d],
                            [c \in Cells(n) |-> f]) :
                 m \in GameShuffles(n), d \in GameDraws,
                 f \in {FillChoices[1], FillChoices[2]}},
        auto \in BOOLEAN}

\* The same, tabulated for the grid sizes of the levels 1..MaxLevel.
NewBoardsTable ==
    [n \in {get_grid_size_for_level(l) : l \in 1..MaxLevel} |-> NewBoardsFor(n)]

NewBoards(n) == NewBoardsTable[n]

Init ==
    /\ pc = "loop"
    /\ grid_size = get_grid_size_for_level(1)
    /\ \E nb \in NewBoards(get_grid_size_for_level(1)) :
          /\ board = nb.board
          /\ solution_path = nb.solution_path
          /\ auto_solved = nb.auto_solved
    /\ connection_path = None
    /\ search = EmptySearch
    /\ GameIdle
    /\ CellIdle

\* What every branch of a tick writes: the clock, the hint globals and the
\* connectivity result.
TickCommon(r, evs, replaced) ==
    /\ last_tick.n < MaxTicks
    /\ current_time' = r.t
    /\ hint_mode' = r.g.hint_mode
    /\ hint_start_time' = r.g.hint_start_time
    /\ hint_last_update' = r.g.hint_last_update
    /\ solution_reached_time' = r.g.solution_reached_time
    /\ connection_path' = r.connection_path
    /\ last_tick' = [n |-> last_tick.n + 1, events |-> evs, active |-> r.g.active,
                     gap |-> r.g.gap, cadence |-> r.g.cadence,
                     expired |-> r.g.expired, replaced |-> replaced]
    /\ hint_log' = IF replaced THEN [r.g.log EXCEPT !.replaced = TRUE] ELSE r.g.log
    /\ UNCHANGED <<pc, search, cellVars>>

\* state == "playing", no path reported and time left
TickPlay ==
    /\ pc = "loop" /\ state = "playing"
    /\ \E dt \in TickDts, evs \in EventBatches(grid_size) :
         \E r \in {TickResult(dt, evs)} :
         /\ r.connection_path = None
         /\ r.time_left > 0
         /\ TickCommon(r, evs, FALSE)
         /\ board' = r.g.board
    /\ UNCHANGED <<grid_size, solution_path, auto_solved, level, points, state,
                   level_start_time, current_level_time, level_complete_start,
                   timeout_start>>

\* A variant that awards the time bonus without the 100 base points.
TickComplete_nobase ==
    /\ pc = "loop" /\ state = "playing"
    /\ \E dt \in TickDts, evs \in EventBatches(grid_size) :
         \E r \in {TickResult(dt, evs)} :
         /\ r.connection_path # None
         /\ TickCommon(r, evs, FALSE)
         /\ board' = r.g.board
         /\ points' = points + (r.time_left \div 100)
         /\ level_complete_start' = r.t
    /\ state' = "hacked"
    /\ UNCHANGED <<grid_size, solution_path, auto_solved, level,
                   level_start_time, current_level_time, timeout_start>>

\* state == "playing" and "if connection_path:"
TickComplete ==
    /\ pc = "loop" /\ state = "playing"
    /\ \E dt \in TickDts, evs \in EventBatches(grid_size) :
         \E r \in {TickResult(dt, evs)} :
         /\ r.connection_path # None
         /\ TickCommon(r, evs, FALSE)
         /\ board' = r.g.board
         /\ points' = points + (r.time_left \div 100) + 100
         /\ level_complete_start' = r.t
    /\ state' = "hacked"
    /\ UNCHANGED <<grid_size, solution_path, auto_solved, level,
                   level_start_time, current_level_time, timeout_start>>

\* A variant that tests the countdown before the connection path.
TickTimeOut_first ==
    /\ pc = "loop" /\ state = "playing"
    /\ \E dt \in TickDts, evs \in EventBatches(grid_size) :
         \E r \in {TickResult(dt, evs)} :
         /\ r.time_left <= 0
         /\ TickCommon(r, evs, FALSE)
         /\ board' = r.g.board
         /\ timeout_start' = r.t
    /\ state' = "timeout"
    /\ UNCHANGED <<grid_size, solution_path, auto_solved, level, points,
                   level_start_time, current_level_time, level_complete_start>>

\* state == "playing" and "elif time_left <= 0:"
TickTimeOut ==
    /\ pc = "loop" /\ state = "playing"
    /\ \E dt \in TickDts, evs \in EventBatches(grid_size) :
         \E r \in {TickResult(dt, evs)} :
         /\ r.connection_path = None
         /\ r.time_left <= 0
         /\ TickCommon(r, evs, FALSE)
         /\ board' = r.g.board
         /\ timeout_start' = r.t
    /\ state' = "timeout"
    /\ UNCHANGED <<grid_size, solution_path, auto_solved, level, points,
                   level_start_time, current_level_time, level_complete_start>>

\* state is "hacked" or "timeout" and LEVEL_COMPLETE_DELAY has not passed
TickWait ==
    /\ pc = "loop" /\ state \in {"hacked", "timeout"}
    /\ \E dt \in TickDts, evs \in EventBatches(grid_size) :
         \E r \in {TickResult(dt, evs)} :
         /\ ~(r.t - (IF state = "hacked" THEN level_complete_start ELSE timeout_start)
                > LEVEL_COMPLETE_DELAY)
         /\ TickCommon(r, evs, FALSE)
         /\ board' = r.g.board
    /\ UNCHANGED <<grid_size, solution_path, auto_solved, level, points, state,
                   level_start_time, current_level_time, level_complete_start,
                   timeout_start>>

\* A variant that advances the level and keeps the old grid_size.
TickAdvance_samesize ==
    /\ pc = "loop" /\ state = "hacked"
    /\ level < MaxLevel
    /\ \E dt \in TickDts, evs \in EventBatches(grid_size) :
         \E r \in {TickResult(dt, evs)} :
         /\ r.t - level_complete_start > LEVEL_COMPLETE_DELAY
         /\ TickCommon(r, evs, TRUE)
         /\ level' = level + 1
         /\ grid_size' = grid_size
         /\ current_level_time' = get_level_time(level + 1)
         /\ \E nb \in NewBoards(get_grid_size_for_level(level + 1)) :
               /\ board' = nb.board
               /\ solution_path' = nb.solution_path
               /\ auto_solved' = nb.auto_solved
         /\ level_start_time' = r.t
    /\ state' = "playing"
    /\ UNCHANGED <<points, level_complete_start, timeout_start>>

\* state == "hacked" and the delay has passed: the next level
TickAdvance ==
    /\ pc = "loop" /\ state = "hacked"
    /\ level < MaxLevel
    /\ \E dt \in TickDts, evs \in EventBatches(grid_size) :
         \E r \in {TickResult(dt, evs)} :
         /\ r.t - level_complete_start > LEVEL_COMPLETE_DELAY
         /\ TickCommon(r, evs, TRUE)
         /\ level' = level + 1
         /\ grid_size' = get_grid_size_for_level(level + 1)
         /\ current_level_time' = get_level_time(level + 1)
         /\ \E nb \in NewBoards(get_grid_size_for_level(level + 1)) :
               /\ board' = nb.board
               /\ solution_path' = nb.solution_path
               /\ auto_solved' = nb.auto_solved
         /\ level_start_time' = r.t
    /\ state' = "playing"
    /\ UNCHANGED <<points, level_complete_start, timeout_start>>

\* A variant that retries as soon as the delay is reached.
TickRetry_eager ==
    /\ pc = "loop" /\ state = "timeout"
    /\ \E dt \in TickDts, evs \in EventBatches(grid_size) :
         \E r \in {TickResult(dt, evs)} :
         /\ r.t - timeout_start >= LEVEL_COMPLETE_DELAY
         /\ TickCommon(r, evs, TRUE)
         /\ \E nb \in NewBoards(grid_size) :
               /\ board' = nb.board
               /\ solution_path' = nb.solution_path
               /\ auto_solved' = nb.auto_solved
         /\ level_start_time' = r.t
         /\ current_level_time' = get_level_time(level)
    /\ state' = "playing"
    /\ UNCHANGED <<grid_size, level, points, level_complete_start, timeout_start>>

\* state == "timeout" and the delay has passed: the same level again
TickRetry ==
    /\ pc = "loop" /\ state = "timeout"
    /\ \E dt \in TickDts, evs \in EventBatches(grid_size) :
         \E r \in {TickResult(dt, evs)} :
         /\ r.t - timeout_start > LEVEL_COMPLETE_DELAY
         /\ TickCommon(r, evs, TRUE)
         /\ \E nb \in NewBoards(grid_size) :
               /\ board' = nb.board
               /\ solution_path' = nb.solution_path
               /\ auto_solved' = nb.auto_solved
         /\ level_start_time' = r.t
         /\ current_level_time' = get_level_time(level)
    /\ state' = "playing"
    /\ UNCHANGED <<grid_size, level, points, level_complete_start, timeout_start>>

Next == TickPlay \/ TickComplete \/ TickTimeOut \/ TickWait \/ TickAdvance \/ TickRetry

Spec == Init /\ [][Next]_vars

(***************************************************************************)
(* One solution-path cell under the three things the loop does to it: the  *)
(* hint block's cadence step, the player's rotate (MOUSEBUTTONDOWN), and   *)
(* the replacement of the board, which puts a new Cell of any kind, target *)
(* and orientation in its place.  trail keeps the last two operations and  *)
(* the orientation each left.                                              *)
(***************************************************************************)
LastTwo(s) == IF Len(s) <= 2 THEN s ELSE SubSeq(s, Len(s) - 1, Len(s))

HintInit ==
    /\ pc = "hint"
    /\ cell \in CellInputs
    /\ trail = <<>>
    /\ connections = None
    /\ grid_size = INITIAL_GRID_SIZE
    /\ board = <<>>
    /\ solution_path = <<>>
    /\ connection_path = None
    /\ search = EmptySearch
    /\ auto_solved = FALSE
    /\ GameIdle

\* the body of "for (x, y) in solution_path:" in the hint block, on this cell
CadenceStep ==
    /\ pc = "hint"
    /\ cell' = HintRotate(cell)
    /\ trail' = LastTwo(Append(trail, <<"cadence", cell'.orientation>>))
    /\ UNCHANGED <<pc, boardVars, connection_path, search, auto_solved, gameVars,
                   connections>>

\* "board[grid_y][grid_x].rotate()"
PlayerRotate ==
    /\ pc = "hint"
    /\ cell' = rotate(cell)
    /\ trail' = LastTwo(Append(trail, <<"rotate", cell'.orientation>>))
    /\ UNCHANGED <<pc, boardVars, connection_path, search, auto_solved, gameVars,
                   connections>>

\* "board, solution_path = create_board(grid_size)" and the auto-solved draw
ReplaceCell ==
    /\ pc = "hint"
    /\ cell' \in CellInputs
    /\ trail' = LastTwo(Append(trail, <<"replace", cell'.orientation>>))
    /\ UNCHANGED <<pc, boardVars, connection_path, search, auto_solved, gameVars,
                   connections>>

HintNext == CadenceStep \/ PlayerRotate \/ ReplaceCell

SpecHint == HintInit /\ [][HintNext]_vars

(***************************************************************************)
(* main-pygbag.py: the loop pass of "async def main()", run beside the     *)
(* loop of game.py from the same state with the same clock readings,       *)
(* events and random outcomes.  Its event handling and hint block (lines   *)
(* 274-310) are the statements of game.py; between the hint block and the  *)
(* connectivity check it updates the terminal log inline and calls         *)
(* generate_random_terminal_message, and after the state machine it draws  *)
(* with draw_cell: the module defines neither name, so the call raises     *)
(* NameError and the coroutine ends.                                       *)
(***************************************************************************)
TERMINAL_UPDATE_INTERVAL == 500

\* "last_terminal_update = pygame.time.get_ticks()" at the start of main: the
\* reading the model starts its clock from.
PygbagLastTerminalUpdate == 0

\* The pass is entered only while no earlier pass has raised; every pass
\* raises (in the terminal update or, failing that, at the first draw_cell),
\* so the coroutine is in its loop for its first pass only.
PygbagRunning == last_tick.n = 0

\* "if state == 'playing': ... elif state == 'hacked': ... elif state ==
\* 'timeout': ..." on the outcome g of the hint block; nb is what
\* create_board and the auto-solved draw give when a branch asks for them.
PygbagStateMachine(g, t, time_left, cp, nb) ==
    LET same == [board |-> g.board, solution_path |-> solution_path,
                 state |-> state, level |-> level, points |-> points]
    IN CASE state = "playing" ->
              IF cp # None
              THEN [same EXCEPT !.points = points + (time_left \div 100) + 100,
                                !.state = "hacked"]
              ELSE IF time_left <= 0
              THEN [same EXCEPT !.state = "timeout"]
              ELSE same
         [] state = "hacked" ->
              IF t - level_complete_start > LEVEL_COMPLETE_DELAY
              THEN [same EXCEPT !.level = level + 1, !.board = nb.board,
                                !.solution_path = nb.solution_path,
                                !.state = "playing"]
              ELSE same
         [] state = "timeout" ->
              IF t - timeout_start > LEVEL_COMPLETE_DELAY
              THEN [same EXCEPT !.board = nb.board,
                                !.solution_path = nb.solution_path,
                                !.state = "playing"]
              ELSE same

\* One pass of the loop, up to the NameError that ends it: raised_at is the
\* line that raises, stepped tells whether the state machine had run.
PygbagPass(dt, evs, nb) ==
    LET t == current_time + dt
        time_left == Max(0, current_level_time - (t - level_start_time))
        g == AnimateHint(HandleEvents(Mutable, evs, 1, t), t)
        hint == [hint_mode |-> g.hint_mode,
                 hint_start_time |-> g.hint_start_time,
                 hint_last_update |-> g.hint_last_update,
                 solution_reached_time |-> g.solution_reached_time]
    IN IF t - PygbagLastTerminalUpdate > TERMINAL_UPDATE_INTERVAL
       THEN [raised_at |-> 312, stepped |-> FALSE, hint |-> hint,
             game |-> [board |-> g.board, solution_path |-> solution_path,
                       state |-> state, level |-> level, points |-> points]]
       ELSE [raised_at |-> 358, stepped |-> TRUE, hint |-> hint,
             game |-> PygbagStateMachine(g, t, time_left,
                         IF ~g.hint_mode
                         THEN find_connection_path(g.board, grid_size)
                         ELSE None,
                         nb)]

\* "while True: current_time = pygame.time.get_ticks()": the loop begins another
\* pass and reads the clock.  It is enabled exactly when Next is: a playing or
\* timed-out state has a branch for every clock reading, a hacked state at
\* MaxLevel only within LEVEL_COMPLETE_DELAY.
LoopPass ==
    /\ pc = "loop"
    /\ last_tick.n < MaxTicks
    /\ \E dt \in TickDts :
          /\ (state = "hacked" /\ level >= MaxLevel) =>
                current_time + dt - level_complete_start <= LEVEL_COMPLETE_DELAY
          /\ current_time' = current_time + dt

\* The loop goes on to its next pass for as long as the program runs.
SpecLive == Init /\ [][Next]_vars /\ WF_current_time(LoopPass)

(***************************************************************************)
(* Properties                                                              *)
(***************************************************************************)
Exit == <<grid_size - 1, grid_size - 1>>

PathCells == Range(solution_path)

AllAtTarget == \A c \in PathCells : board[c].orientation = board[c].target

\* A mutual connector joins cell c to its neighbour in direction d.
Linked(b, n, c, d) ==
    /\ InBounds(n, Step(c, d))
    /\ d \in Range(get_connections(b[c]))
    /\ REVERSE_DIR[d] \in Range(get_connections(b[Step(c, d)]))

RECURSIVE Closure(_, _, _)
\* The cells joined to a cell of S by a chain of mutual connectors.
Closure(b, n, S) ==
    LET T == S \cup {Step(x[1], x[2]) :
                       x \in {y \in S \X (0..3) : Linked(b, n, y[1], y[2])}}
    IN IF T = S THEN S ELSE Closure(b, n, T)

\* C1: on a board made by create_board whose solution-path cells are all at
\* their target, find_connection_path returns a path from (0,0) to (N-1,N-1).
C1_SolvedBoardConnects ==
    (pc = "checked" /\ AllAtTarget) =>
        /\ connection_path # None
        /\ connection_path[1] = <<0, 0>>
        /\ connection_path[Len(connection_path)] = Exit

C1_Witness ==
    /\ pc = "checked"
    /\ auto_solved
    /\ AllAtTarget
    /\ \E c \in PathCells : board[c].piece_type = "tshape"
    /\ \E c \in PathCells : board[c].piece_type = "corner"
    /\ connection_path # None

\* C2: a board returned by create_board, with no auto-solved override applied,
\* is never connected: find_connection_path returns None on it.
C2_StartsUnsolved ==
    (pc = "checked" /\ ~auto_solved) => connection_path = None

\* C3: right after create_board no solution-path cell other than a Plus is at
\* its target; it is at one of the three other orientations.
C3_ScrambledOffTarget ==
    pc = "created" =>
        \A c \in PathCells :
            board[c].piece_type # "plus" =>
                /\ board[c].orientation # board[c].target
                /\ board[c].orientation \in Orientations

C3_Witness ==
    /\ pc = "created"
    /\ \A c \in PathCells : board[c].piece_type # "plus"
    /\ \E c \in PathCells : board[c].orientation = (board[c].target + 180) % 360
    /\ \E c \in PathCells : board[c].orientation = (board[c].target + 270) % 360

\* C4: generate_solution_path(N, N) has 2N-1 coordinates, starts at (0,0), ends
\* at (N-1,N-1), each step adds 1 to exactly one axis; so the coordinates are
\* distinct and in bounds.
C4_PathShape ==
    pc = "path_done" =>
        /\ Len(solution_path) = 2 * grid_size - 1
        /\ solution_path[1] = <<0, 0>>
        /\ solution_path[Len(solution_path)] = <<grid_size - 1, grid_size - 1>>
        /\ \A i \in 1..(Len(solution_path) - 1) :
              \/ /\ solution_path[i + 1][1] = solution_path[i][1] + 1
                 /\ solution_path[i + 1][2] = solution_path[i][2]
              \/ /\ solution_path[i + 1][1] = solution_path[i][1]
                 /\ solution_path[i + 1][2] = solution_path[i][2] + 1
        /\ \A i \in 1..Len(solution_path) : InBounds(grid_size, solution_path[i])
        /\ \A i, j \in 1..Len(solution_path) :
              solution_path[i] = solution_path[j] => i = j

C4_Witness ==
    /\ pc = "path_done"
    /\ grid_size = MAX_GRID_SIZE
    /\ solution_path[2] = <<0, 1>>
    /\ solution_path[3] = <<1, 1>>
    /\ Len(solution_path) = 15

\* C5: find_connection_path returns None exactly when the exit cannot be
\* reached from (0,0) through a chain of mutually connected neighbours.
C5_NoFalseNegative ==
    pc = "checked" =>
        (connection_path = None <=>
            Exit \notin Closure(board, grid_size, {<<0, 0>>}))

\* The search backtracked out of a dead end and still returned a path.
C5_Witness ==
    /\ pc = "checked"
    /\ solution_path = <<>>
    /\ connection_path # None
    /\ \E c \in Range(search.expanded) : c \notin Range(connection_path)

\* C6: a returned path runs from (0,0) to (N-1,N-1) and each consecutive pair
\* is a pair of in-bounds neighbours joined by a mutual connector.
C6_PathIsConnected ==
    (pc = "checked" /\ connection_path # None) =>
        /\ connection_path[1] = <<0, 0>>
        /\ connection_path[Len(connection_path)] = Exit
        /\ \A i \in 1..(Len(connection_path) - 1) :
              \E d \in 0..3 :
                  /\ connection_path[i + 1] = Step(connection_path[i], d)
                  /\ Linked(board, grid_size, connection_path[i], d)

\* A returned path that is not monotone: it takes a step left or up.
C6_Witness ==
    /\ pc = "checked"
    /\ solution_path = <<>>
    /\ connection_path # None
    /\ Len(connection_path) > 2 * grid_size - 1

\* C7: a tick that ends with hint mode Active reports no connection path, does
\* not move the state from playing to hacked and awards no points.
C7_HintSuspendsCheck ==
    [][hint_mode' =>
         /\ connection_path' = None
         /\ points' = points
         /\ ~(state = "playing" /\ state' = "hacked")]_vars

\* Hint mode is Active on a playing board that is connected, with every path
\* cell at its target, and the tick reported no path.
C7_Witness ==
    /\ pc = "loop"
    /\ last_tick.n > 0
    /\ hint_mode
    /\ state = "playing"
    /\ AllAtTarget
    /\ find_connection_path(board, grid_size) # None
    /\ connection_path = None

\* C8: a tick entered with hint mode Active leaves it Inactive exactly when its
\* clock reading is more than 6000 ms after the activation or more than 1000 ms
\* after the recorded convergence stamp; so hint mode is never Active at the
\* end of a tick more than 6000 ms after its activation.
C8_HintExpiry ==
    [][/\ hint_mode' => current_time' - hint_start_time' <= 6000
       /\ hint_mode =>
            (~hint_mode' <=>
                \/ current_time' - hint_start_time > 6000
                \/ /\ solution_reached_time' # None
                   /\ current_time' - solution_reached_time'[1] > 1000)]_vars

\* Hint mode expired through the convergence stamp, before the maximum duration.
C8_Witness ==
    /\ pc = "loop"
    /\ last_tick.expired
    /\ ~hint_mode
    /\ solution_reached_time # None
    /\ current_time - solution_reached_time[1] > 1000
    /\ current_time - hint_start_time <= 6000

\* C9 as stated: a tick with no input that reads the clock exactly 1000 ms
\* after the last cadence point performs the cadence step.
C9_CadenceAtInterval ==
    (last_tick.active /\ last_tick.events = NoEvents /\ last_tick.gap = 1000)
        => last_tick.cadence

\* C9, amended: a tick with no input entered in hint mode performs the cadence
\* step exactly when its clock reading is more than 1000 ms after the last
\* cadence point; a path cell with target 180 standing at 90 is left at 180 by
\* such a tick and at 90 by an earlier one (one at exactly 1000 ms included).
C9_CadenceAfterInterval ==
    [][(hint_mode /\ last_tick'.events = NoEvents /\ ~last_tick'.replaced) =>
         /\ last_tick'.cadence <=> current_time' - hint_last_update > 1000
         /\ \A c \in PathCells :
               (board[c].target = 180 /\ board[c].orientation = 90) =>
                   board'[c].orientation =
                       IF current_time' - hint_last_update > 1000 THEN 180 ELSE 90]_vars

\* The first cadence step after a trigger brought a cell with target 180 to 180.
C9_Witness ==
    /\ pc = "loop"
    /\ last_tick.cadence
    /\ last_tick.events = NoEvents
    /\ ~last_tick.replaced
    /\ hint_log.cadences = 1
    /\ ~hint_log.rotated
    /\ ~hint_log.replaced
    /\ \E c \in PathCells : board[c].target = 180 /\ board[c].orientation = 180

\* C10: after the first cadence step that follows a hint trigger with no
\* rotation in between, every cell of the current solution path is at its
\* target and the convergence stamp is that tick's clock reading.
C10_FirstCadenceConverges ==
    (last_tick.cadence /\ hint_log.cadences = 1 /\ ~hint_log.rotated) =>
        /\ AllAtTarget
        /\ solution_reached_time = <<current_time>>

\* The hint that is running was triggered in the playing state, on the board
\* still in play, and the player has not rotated a cell since.
C11_Undisturbed ==
    /\ hint_log.trigger_state = "playing"
    /\ ~hint_log.rotated
    /\ ~hint_log.replaced

\* C11: a hint triggered in the playing state, with no player rotation and no
\* time-out afterwards, ends: hint mode becomes Inactive, and the tick in which
\* it does leaves every path cell at its target, reports a connection path
\* and moves the state to hacked.  (The run may stop at the MaxTicks-th pass
\* while the hint is still within its 6000 ms.)
C11_AssistCompletes ==
    /\ (hint_mode /\ state = "playing" /\ C11_Undisturbed)
          ~> \/ /\ ~hint_mode
                /\ last_tick.expired
                /\ AllAtTarget
                /\ connection_path # None
                /\ state = "hacked"
             \/ hint_log.rotated
             \/ state = "timeout"
             \/ /\ last_tick.n = MaxTicks
                /\ hint_mode
                /\ current_time - hint_start_time <= HINT_MODE_MAX_DURATION
    /\ [][(hint_mode /\ ~hint_mode' /\ state = "playing" /\ ~hint_log'.rotated
            /\ hint_log'.trigger_state = "playing" /\ ~hint_log'.replaced) =>
              /\ AllAtTarget'
              /\ connection_path' # None
              /\ state' = "hacked"]_vars

\* An undisturbed hint converged at its first cadence step and ended, before
\* its maximum duration, in the tick of its second one, with the level complete.
C11_Witness ==
    /\ pc = "loop"
    /\ last_tick.expired
    /\ ~hint_mode
    /\ C11_Undisturbed
    /\ hint_log.cadences = 2
    /\ state = "hacked"
    /\ AllAtTarget
    /\ connection_path # None
    /\ current_time - hint_start_time <= HINT_MODE_MAX_DURATION

\* C12: a tick entered with hint mode Active whose only event is K_h leaves
\* hint_start_time as it was and ends with the same hint_last_update,
\* solution_reached_time, hint_mode and board as the same tick with no event;
\* when its cadence step is not due, the board and hint_last_update are left
\* as they were.
C12_TriggerIgnoredWhileActive ==
    [][(hint_mode /\ last_tick'.events = <<<<"h">>>>) =>
         /\ hint_start_time' = hint_start_time
         /\ \A r \in {TickResult(current_time' - current_time, NoEvents)} :
               /\ hint_last_update' = r.g.hint_last_update
               /\ solution_reached_time' = r.g.solution_reached_time
               /\ hint_mode' = r.g.hint_mode
               /\ ~last_tick'.replaced => board' = r.g.board
         /\ ~last_tick'.cadence =>
               /\ hint_last_update' = hint_last_update
               /\ ~last_tick'.replaced => board' = board]_vars

\* K_h arrived in a tick later than the one that activated hint mode, with
\* path cells still off target and no cadence step due.
C12_Witness ==
    /\ pc = "loop"
    /\ last_tick.events = <<<<"h">>>>
    /\ last_tick.active
    /\ ~last_tick.cadence
    /\ hint_mode
    /\ hint_start_time < current_time
    /\ ~AllAtTarget

\* C13: a tick whose only event is a click on the in-bounds cell c, and whose
\* cadence step does not run, leaves the board as it was when the state is
\* hacked or timeout, and in the playing state changes it by rotate on
\* exactly c; in the hacked and timeout states the board ends as in the same
\* tick with no event.  (A tick that replaces the board is not compared.)
C13_RotateOnlyWhilePlaying ==
    [][\A c \in ClickTargets(grid_size) :
         (last_tick'.events = <<<<"click", c[1], c[2]>>>> /\ ~last_tick'.replaced) =>
            /\ (state = "playing" /\ ~last_tick'.cadence) =>
                  board' = [board EXCEPT ![c] = rotate(@)]
            /\ (state # "playing" /\ ~last_tick'.cadence) => board' = board
            /\ state # "playing" =>
                  \A r \in {TickResult(current_time' - current_time, NoEvents)} :
                      board' = r.g.board]_vars

\* A click arrived in the hacked state, on a board no click has ever rotated.
C13_Witness ==
    /\ pc = "loop"
    /\ \E c \in ClickTargets(grid_size) :
          last_tick.events = <<<<"click", c[1], c[2]>>>>
    /\ ~last_tick.replaced
    /\ state = "hacked"
    /\ level_complete_start < current_time
    /\ ~hint_log.rotated
    /\ board[<<0, 0>>].piece_type # "plus"

\* C14 as stated: in one hint, on the board it was triggered on, every cadence
\* step after the first leaves every path cell at its target, whatever the
\* player rotated since the step before.
C14_RotationOverwritten ==
    [][(hint_mode /\ hint_log.cadences >= 1 /\ ~hint_log.replaced
        /\ last_tick'.cadence /\ ~last_tick'.replaced) =>
          \A c \in PathCells : board'[c].orientation = board'[c].target]_vars

\* C14, amended: a cadence step turns a path cell by one quarter turn towards
\* its target.  With the tick's own click applied first, a cell that stands at
\* its target or a quarter turn from it is at its target after the step; a
\* cell that stands a half turn from its target (two player rotations after
\* reaching it, or three after the trigger) is a quarter turn short of it.
C14_RotationSteppedBack ==
    [][(hint_mode /\ last_tick'.cadence /\ ~last_tick'.replaced) =>
          \A c \in PathCells :
              \A pre \in {IF state = "playing"
                              /\ last_tick'.events = <<<<"click", c[1], c[2]>>>>
                           THEN rotate(board[c])
                           ELSE board[c]} :
                  board'[c].orientation =
                      IF (pre.target - pre.orientation) % 360 = 180
                      THEN (pre.target - 90) % 360
                      ELSE pre.target]_vars

\* After a hint's first cadence step the player rotated the cell (0, 0) twice,
\* and the next cadence step left it a quarter turn short of its target.
C14_Witness ==
    /\ pc = "loop"
    /\ last_tick.cadence
    /\ ~last_tick.replaced
    /\ hint_log.cadences >= 2
    /\ hint_log.rotated
    /\ ~hint_log.replaced
    /\ board[<<0, 0>>].orientation = (board[<<0, 0>>].target - 90) % 360

\* C15: a Plus piece has, after any number of rotate calls, the orientation
\* it started with, whichever of 0, 90, 180, 270 that was.
C15_PlusNeverTurns ==
    (pc = "cell" /\ cell.piece_type = "plus") =>
        /\ cell.orientation = trail[1]
        /\ \A i \in 1..Len(trail) : trail[i] = trail[1]

\* A Plus that started at 270 and has been rotated MaxCalls times.
C15_Witness ==
    /\ pc = "cell"
    /\ cell.piece_type = "plus"
    /\ trail[1] = 270
    /\ Len(trail) = MaxCalls + 1

\* C16: on a Line, Corner or Tshape every rotate call advances the orientation
\* by 90 mod 360; any four successive calls pass through four distinct
\* orientations and end at the orientation they started from.
C16_QuarterTurns ==
    (pc = "cell" /\ cell.piece_type # "plus") =>
        /\ cell.orientation = trail[Len(trail)]
        /\ \A i \in 2..Len(trail) : trail[i] = (trail[i - 1] + 90) % 360
        /\ \A i \in 1..(Len(trail) - 4) :
              /\ Cardinality({trail[i + k] : k \in 1..4}) = 4
              /\ trail[i + 4] = trail[i]

\* A Corner that started at 180 has been rotated four times and is at 180.
C16_Witness ==
    /\ pc = "cell"
    /\ cell.piece_type = "corner"
    /\ Len(trail) = 5
    /\ trail[1] = 180
    /\ cell.orientation = 180

\* C17: get_connections returns, without repetition, for a Line {Up, Down}
\* at 0/180 and {Left, Right} at 90/270; for a Corner two adjacent
\* directions; for a Tshape three directions; for a Plus all four; and for a
\* Corner or Tshape a set that the same piece has at no other orientation.
C17_ConnectionTable ==
    connections # None =>
        LET c == connections.of
            dirs == Range(connections.result)
        IN /\ Cardinality(dirs) = Len(connections.result)
           /\ dirs \subseteq 0..3
           /\ c.piece_type = "line" =>
                 dirs = IF c.orientation \in {0, 180} THEN {0, 2} ELSE {1, 3}
           /\ c.piece_type = "corner" =>
                 /\ \E d \in 0..3 : dirs = {d, (d + 1) % 4}
                 /\ \A o \in Orientations \ {c.orientation} :
                       Range(get_connections([c EXCEPT !.orientation = o])) # dirs
           /\ c.piece_type = "tshape" =>
                 /\ Cardinality(dirs) = 3
                 /\ \A o \in Orientations \ {c.orientation} :
                       Range(get_connections([c EXCEPT !.orientation = o])) # dirs
           /\ c.piece_type = "plus" => dirs = 0..3

\* get_connections was called on a Corner at 270 that had been rotated there.
C17_Witness ==
    /\ pc = "cell"
    /\ connections # None
    /\ connections.of.piece_type = "corner"
    /\ connections.of.orientation = 270
    /\ Len(trail) > 1
    /\ connections.of = cell

\* C18: for every phase >= 1 the grid size is at most MAX_GRID_SIZE and the
\* level time at least MIN_LEVEL_TIME, and from any phase >= 1 to any phase
\* not below it the grid size does not decrease and the level time does not
\* increase.
C18_MonotoneAndClamped ==
    /\ []((pc = "levels" /\ level >= 1) =>
            (grid_size <= 8 /\ current_level_time >= 30000))
    /\ [][(pc' = "levels" /\ 1 <= level /\ level <= level') =>
            (grid_size <= grid_size' /\ current_level_time' <= current_level_time)]_vars

\* A phase at which both clamps are in force.
C18_Witness ==
    /\ pc = "levels"
    /\ level = MaxPhase
    /\ grid_size = MAX_GRID_SIZE
    /\ current_level_time = MIN_LEVEL_TIME

\* C19: for every phase >= 1, with q the integer part of (phase - 1) / 2, the
\* grid size is the smaller of 8 and 3 + q and the level time the larger of
\* 30000 and 60000 - (phase - 1) * 5000; gridSize(1) = 3, timeBudget(1) =
\* 60000, timeBudget(3) = 50000, gridSize(11) = 8.
C19_ClosedForms ==
    (pc = "levels" /\ level >= 1) =>
        /\ \E q \in 0..level :
              /\ 2 * q <= level - 1
              /\ level - 1 < 2 * q + 2
              /\ grid_size = IF 3 + q <= 8 THEN 3 + q ELSE 8
        /\ current_level_time =
              IF 60000 - (level - 1) * 5000 >= 30000
              THEN 60000 - (level - 1) * 5000
              ELSE 30000
        /\ level = 1 => (grid_size = 3 /\ current_level_time = 60000)
        /\ level = 3 => current_level_time = 50000
        /\ level = 11 => grid_size = 8

\* The functions were called with phase 11.
C19_Witness ==
    /\ pc = "levels"
    /\ level = 11
    /\ grid_size = 8
    /\ current_level_time = 30000

\* C20: neither call returns on a size outside INITIAL_GRID_SIZE..MAX_GRID_SIZE:
\* get_grid_size_for_level returns no such size, whatever the phase, and
\* create_board returns no board of such a size.
C20_FailFast ==
    pc \in {"levels", "created"} => grid_size \in INITIAL_GRID_SIZE..MAX_GRID_SIZE

\* C21: the hacked and timeout states begin at the tick that records
\* level_complete_start / timeout_start and are left, for playing only, at a
\* tick that reads the clock more than 2000 ms later, never at an earlier
\* one; that tick installs an outcome of create_board for the grid size then
\* in force and restarts the countdown; leaving hacked adds exactly one to the
\* level, leaving timeout keeps level and grid size.
C21_FixedPause ==
    [][/\ (state = "playing" /\ state' = "hacked") => level_complete_start' = current_time'
       /\ (state = "playing" /\ state' = "timeout") => timeout_start' = current_time'
       /\ state \in {"hacked", "timeout"} =>
            \A began \in {IF state = "hacked" THEN level_complete_start ELSE timeout_start} :
               /\ state' \in {state, "playing"}
               /\ state' = "playing" <=> current_time' - began > 2000
               /\ state' = "playing" =>
                     /\ \E nb \in NewBoards(grid_size') :
                           /\ board' = nb.board
                           /\ solution_path' = nb.solution_path
                     /\ level_start_time' = current_time'
                     /\ current_level_time' = get_level_time(level')
                     /\ grid_size' = get_grid_size_for_level(level')
                     /\ state = "hacked" => level' = level + 1
                     /\ state = "timeout" => (level' = level /\ grid_size' = grid_size)
               /\ state' = state =>
                     /\ level' = level /\ grid_size' = grid_size
                     /\ solution_path' = solution_path
                     /\ level_start_time' = level_start_time]_vars

\* The game left the hacked state for level 2 after a wait tick at exactly
\* 2000 ms.
C21_Witness ==
    /\ pc = "loop"
    /\ state = "playing"
    /\ level = 2
    /\ last_tick.replaced
    /\ last_tick.n >= 3
    /\ level_start_time = current_time
    /\ current_time - level_complete_start = 3000

\* C22: a finished search has called visited.add at most once per cell, on
\* cells of the board only, and has run the parent assignment at most once
\* per cell; and it returned None when no chain of mutual connectors joins
\* (0,0) to the exit.
C22_EachCellOnce ==
    pc = "checked" =>
        /\ Cardinality(Range(search.expanded)) = Len(search.expanded)
        /\ Range(search.expanded) = search.visited
        /\ search.visited \subseteq Cells(grid_size)
        /\ Len(search.expanded) <= grid_size * grid_size
        /\ Cardinality(Range(search.assigned)) = Len(search.assigned)
        /\ Range(search.assigned) = DOMAIN search.parent
        /\ Exit \notin Closure(board, grid_size, {<<0, 0>>}) => connection_path = None

\* On the largest board the search expanded every cell but the exit and
\* returned None.
C22_Witness ==
    /\ pc = "checked"
    /\ solution_path = <<>>
    /\ grid_size = MaxDfsSize
    /\ Len(search.expanded) = grid_size * grid_size - 1
    /\ connection_path = None

\* The connectors a cell has when it stands at its target.
C23_AtTarget(c) == Range(get_connections([c EXCEPT !.orientation = c.target]))

\* C23: on a board made by create_board, for every two consecutive cells A, B
\* of the solution path there is a direction d from A to B such that A at its
\* target exposes d and B at its target exposes the opposite of d.
C23_PathCellsMatch ==
    (pc \in {"created", "ready", "checked"} /\ solution_path # <<>>) =>
        \A i \in 1..(Len(solution_path) - 1) :
            \E d \in 0..3 :
                /\ solution_path[i + 1] = Step(solution_path[i], d)
                /\ d \in C23_AtTarget(board[solution_path[i]])
                /\ REVERSE_DIR[d] \in C23_AtTarget(board[solution_path[i + 1]])

\* A board whose path has Line endpoints and, inside, a Plus override, a
\* Tshape and a Corner.
C23_Witness ==
    /\ pc = "created"
    /\ board[solution_path[1]].piece_type = "line"
    /\ board[solution_path[Len(solution_path)]].piece_type = "line"
    /\ \A k \in {"plus", "tshape", "corner"} :
          \E i \in 2..(Len(solution_path) - 1) :
              board[solution_path[i]].piece_type = k

\* The connectors of a cell in the order Up, Right, Down, Left.
C24_Ascending(c) ==
    SelectSeq(<<0, 1, 2, 3>>, LAMBDA d : d \in Range(get_connections(c)))

RECURSIVE C24_dfs(_, _, _, _), C24_dfs_loop(_, _, _, _, _, _)
\* The depth-first search that examines the directions of every cell in the
\* order Up, Right, Down, Left.
C24_dfs(b, n, c, st) ==
    IF c = <<n - 1, n - 1>>
    THEN [st EXCEPT !.found = TRUE]
    ELSE C24_dfs_loop(b, n, c, C24_Ascending(b[c]), 1,
                      [st EXCEPT !.visited = @ \cup {c}, !.expanded = Append(@, c)])

C24_dfs_loop(b, n, c, conns, k, st) ==
    IF k > Len(conns)
    THEN [st EXCEPT !.found = FALSE]
    ELSE LET d == conns[k]
             nc == Step(c, d)
         IN IF /\ InBounds(n, nc)
               /\ REVERSE_DIR[d] \in Range(get_connections(b[nc]))
               /\ nc \notin st.visited
            THEN LET st1 == C24_dfs(b, n, nc, [st EXCEPT !.parent = (nc :> c) @@ @,
                                                        !.assigned = Append(@, nc)])
                 IN IF st1.found THEN st1 ELSE C24_dfs_loop(b, n, c, conns, k + 1, st1)
            ELSE C24_dfs_loop(b, n, c, conns, k + 1, st)

\* The finished search is the one the fixed-order search makes.
C24_FirstFound ==
    \A ref \in {C24_dfs(board, grid_size, <<0, 0>>, EmptySearch)} :
        /\ search = ref
        /\ connection_path = PathOfSearch(ref, grid_size)

\* C24 as stated: every cell the search expands has its directions examined
\* in the order Up, Right, Down, Left, and the result is the one the
\* fixed-order search finds first.
C24_FixedOrder ==
    (pc = "checked" /\ solution_path = <<>>) =>
        /\ \A c \in Range(search.expanded) :
              get_connections(board[c]) = C24_Ascending(board[c])
        /\ C24_FirstFound

\* C24, amended: the directions of a cell are examined in the order of its
\* get_connections list, which is Up, Right, Down, Left for every kind and
\* orientation but the Corner at 270, examined Left then Up; the search and
\* its result are nevertheless those of the fixed-order search.
C24_ListOrder ==
    (pc = "checked" /\ solution_path = <<>>) =>
        /\ \A c \in Range(search.expanded) :
              get_connections(board[c]) =
                  IF board[c].piece_type = "corner" /\ board[c].orientation = 270
                  THEN <<3, 0>>
                  ELSE C24_Ascending(board[c])
        /\ C24_FirstFound

\* The returned path runs through a Corner at 270, and another route to the
\* exit exists: a cell off the path is joined to both ends.
C24_Witness ==
    /\ pc = "checked"
    /\ solution_path = <<>>
    /\ connection_path # None
    /\ \E i \in 2..(Len(connection_path) - 1) :
          /\ board[connection_path[i]].piece_type = "corner"
          /\ board[connection_path[i]].orientation = 270
    /\ \E c \in Cells(grid_size) \ Range(connection_path) :
          /\ c \in Closure(board, grid_size, {<<0, 0>>})
          /\ Exit \in Closure(board, grid_size, {c})

\* C25: a tick entered with hint mode Inactive whose event is K_h ends with
\* hint mode Active, hint_start_time and hint_last_update at the tick's clock
\* reading and no convergence stamp; unless the tick replaces the board, every
\* solution-path cell stands at (target - 90) mod 360, whatever it stood at,
\* and every other cell is as it was.
C25_TriggerActivates ==
    [][(~hint_mode /\ last_tick'.events = <<<<"h">>>>) =>
         /\ hint_mode'
         /\ hint_start_time' = current_time'
         /\ hint_last_update' = current_time'
         /\ solution_reached_time' = None
         /\ ~last_tick'.replaced =>
               \A c \in Cells(grid_size) :
                   board'[c] =
                       IF c \in PathCells
                       THEN [board[c] EXCEPT !.orientation = (board[c].target - 90) % 360]
                       ELSE board[c]]_vars

\* A second hint was triggered on a board that the first hint had brought to
\* its targets and completed.
C25_Witness ==
    /\ pc = "loop"
    /\ last_tick.events = <<<<"h">>>>
    /\ ~last_tick.replaced
    /\ last_tick.n = MaxTicks
    /\ hint_mode
    /\ hint_start_time = current_time
    /\ solution_reached_time = None
    /\ state = "hacked"
    /\ hint_log.trigger_state = "hacked"
    /\ \A c \in PathCells : board[c].orientation = (board[c].target - 90) % 360

\* C26: a cadence step, taken on the board as the tick's own click left it,
\* turns each solution-path cell by +90 when its gap (target - orientation)
\* mod 360 is 90 or 180, by -90 when the gap is 270, and not at all when the
\* gap is 0; so the gaps 90 and 270 become 0, the gap 180 becomes 90, and no
\* gap grows.
C26_ShorterTurn ==
    [][(hint_mode /\ last_tick'.cadence /\ ~last_tick'.replaced) =>
          \A c \in PathCells :
              \A pre \in {IF state = "playing"
                              /\ last_tick'.events = <<<<"click", c[1], c[2]>>>>
                           THEN rotate(board[c])
                           ELSE board[c]} :
                 \A gap \in {(pre.target - pre.orientation) % 360} :
                    \A after \in {(board'[c].target - board'[c].orientation) % 360} :
                       /\ board'[c].orientation =
                             CASE gap = 0 -> pre.orientation
                               [] gap = 270 -> (pre.orientation - 90) % 360
                               [] OTHER -> (pre.orientation + 90) % 360
                       /\ after = (IF gap = 180 THEN 90 ELSE 0)
                       /\ after <= gap]_vars

\* After the hint's first cadence step the player rotated the cell (0, 0)
\* once, and the second cadence step turned it back by -90.
C26_Witness ==
    /\ pc = "loop"
    /\ last_tick.n = 4
    /\ last_tick.cadence
    /\ last_tick.events = NoEvents
    /\ hint_log.cadences = 2
    /\ hint_log.rotated
    /\ ~hint_log.replaced
    /\ hint_log.trigger_state = "playing"
    /\ solution_reached_time # None
    /\ current_time - solution_reached_time[1] = 2000
    /\ AllAtTarget

\* C27: whatever two directions are asked for and whatever the random
\* choices, the piece returned exposes both directions at its solved
\* orientation: an opposite pair gets a Line or a Tshape, two adjacent
\* directions get the Corner whose connections are exactly the pair, and a
\* repeated direction gets the Line along that direction's axis.
C27_PieceExposesBoth ==
    (pc = "piece" /\ trail # <<>>) =>
        \A a \in {trail[Len(trail)][1]}, b \in {trail[Len(trail)][2]} :
           \A conns \in {Range(connections.result)} :
              /\ connections.of = cell
              /\ cell.orientation = cell.target
              /\ {a, b} \subseteq conns
              /\ (b = REVERSE_DIR[a]) =>
                    /\ cell.piece_type \in {"line", "tshape"}
                    /\ cell.piece_type = "line" => conns = {a, b}
                    /\ cell.piece_type = "tshape" => Cardinality(conns) = 3
              /\ (a # b /\ b # REVERSE_DIR[a]) =>
                    /\ cell.piece_type = "corner"
                    /\ conns = {a, b}
              /\ (a = b) =>
                    /\ cell.piece_type = "line"
                    /\ conns = {a, REVERSE_DIR[a]}

\* Left was asked for twice after an opposite pair, and the horizontal Line
\* came back.
C27_Witness ==
    /\ pc = "piece"
    /\ trail = <<<<2, 0>>, <<3, 3>>>>
    /\ cell.piece_type = "line"
    /\ cell.orientation = 90
    /\ connections.result = <<1, 3>>

\* C28: after every tick the board is grid_size x grid_size with grid_size
\* the size of the current level, and the solution path lies on that board
\* and holds no coordinate twice.
C28_BoardFitsLevel ==
    pc = "loop" =>
        /\ grid_size = get_grid_size_for_level(level)
        /\ DOMAIN board = Cells(grid_size)
        /\ \A i \in 1..Len(solution_path) : solution_path[i] \in Cells(grid_size)
        /\ \A i, j \in 1..Len(solution_path) :
              solution_path[i] = solution_path[j] => i = j

\* The game advanced twice and stands on the first 4 x 4 board.
C28_Witness ==
    /\ pc = "loop"
    /\ level = 3
    /\ grid_size = INITIAL_GRID_SIZE + 1
    /\ last_tick.replaced
    /\ state = "playing"
    /\ Len(solution_path) = 2 * grid_size - 1

C30_SameStep ==
    [][/\ PygbagRunning
       /\ \A p \in {PygbagPass(current_time' - current_time, last_tick'.events,
                                [board |-> board', solution_path |-> solution_path'])} :
             /\ p.stepped
             /\ p.game = [board |-> board', solution_path |-> solution_path',
                          state |-> state', level |-> level', points |-> points']
             /\ p.hint = [hint_mode |-> hint_mode',
                          hint_start_time |-> hint_start_time',
                          hint_last_update |-> hint_last_update',
                          solution_reached_time |-> solution_reached_time']]_vars

\* The countdown as the tick that just ran computed it.
C31_TimeLeft == Max(0, current_level_time - (current_time' - level_start_time))

\* C31: a tick entered in state playing ends in hacked exactly when it
\* reported a connection path (which it does only with hint mode off after
\* the hint block), whatever the countdown, and ends in timeout exactly when
\* it reported none and the countdown is at zero; the state machine of
\* main-pygbag.py decides the same on the same tick.
C31_CompletionFirst ==
    [][state = "playing" =>
         /\ connection_path' # None => ~hint_mode'
         /\ state' = "hacked" <=> connection_path' # None
         /\ state' = "timeout" <=> (connection_path' = None /\ C31_TimeLeft <= 0)
         /\ state' = "playing" <=> (connection_path' = None /\ C31_TimeLeft > 0)
         /\ \A m \in {PygbagStateMachine([board |-> board'], current_time',
                                          C31_TimeLeft, connection_path',
                                          [board |-> board',
                                           solution_path |-> solution_path'])} :
               m.state = state']_vars

\* A level was completed in a tick whose countdown had already reached zero:
\* no bonus, 100 points.
C31_Witness ==
    /\ pc = "loop"
    /\ state = "hacked"
    /\ level_complete_start = current_time
    /\ current_time - level_start_time >= current_level_time
    /\ connection_path # None
    /\ points = 100

\* C32: points never go down and change only at the step from playing to
\* hacked, by 100 plus the countdown's hundreds (100 to 700 in all); the
\* level changes only at the step from hacked to playing, by one; a step
\* from timeout to playing changes neither; and points >= 100 * (level - 1)
\* in every state.
C32_ScoreFollowsLevel ==
    /\ [](pc = "loop" => points >= 100 * (level - 1))
    /\ [][/\ points' >= points
          /\ points' # points <=>
                (state = "playing" /\ state' = "hacked")
          /\ (state = "playing" /\ state' = "hacked") =>
                /\ points' - points =
                      100 + (Max(0, current_level_time
                                    - (current_time' - level_start_time)) \div 100)
                /\ points' - points \in 100..700
          /\ level' # level <=>
                (state = "hacked" /\ state' = "playing")
          /\ level' # level => level' = level + 1
          /\ (state = "timeout" /\ state' = "playing") =>
                (points' = points /\ level' = level)]_vars

\* After a timeout and its retry the level was completed with a bonus and
\* the game advanced to level 2.
C32_Witness ==
    /\ pc = "loop"
    /\ last_tick.n = 4
    /\ last_tick.replaced
    /\ timeout_start > 0
    /\ level = 2
    /\ points > 100
    /\ state = "playing"

\* C33: whatever orientation a solution-path cell has, after two cadence
\* steps in a row (no player rotation and no board replacement between
\* them) it stands at its target, and a cadence step on a cell at its target
\* leaves the cell as it is.
C33_TwoStepsSuffice ==
    /\ []((/\ pc = "hint"
           /\ Len(trail) = 2
           /\ trail[1][1] = "cadence"
           /\ trail[2][1] = "cadence") => cell.orientation = cell.target)
    /\ [][(/\ pc = "hint"
           /\ trail' = LastTwo(Append(trail, <<"cadence", cell'.orientation>>))
           /\ cell.orientation = cell.target) => cell' = cell]_vars

\* A cell a half turn from its target took both steps: the first left it a
\* quarter turn away, the second at the target.
C33_Witness ==
    /\ pc = "hint"
    /\ Len(trail) = 2
    /\ trail[1] = <<"cadence", (cell.target - 90) % 360>>
    /\ trail[2] = <<"cadence", cell.target>>
    /\ cell.orientation = cell.target
    /\ cell.piece_type = "corner"

====
